---- MODULE Spec2Model ----
(***************************************************************************)
(* WhaleSight: Docker container resource dashboard.                        *)
(*                                                                         *)
(* The module models                                                       *)
(*   - DockerStats.get_container_stats (src/docker_stats.py), the          *)
(*     normalisation of one raw stats snapshot into a record;              *)
(*   - DockerStats.get_containers / get_all_container_stats, one poll      *)
(*     over the listed containers;                                         *)
(*   - the Streamlit script of src/app.py, one run of which is one         *)
(*     action: connection check, sliders, refresh, history update;         *)
(*   - several browser sessions running that script on the one cached      *)
(*     DockerStats, the start and the end of a refresh cycle being         *)
(*     separate steps.                                                     *)
(*                                                                         *)
(* Python dicts are functions with a string domain: a key is present iff   *)
(* it is in DOMAIN.  Percentages and megabytes, which the code rounds to   *)
(* two decimals, are integers counting hundredths (20.00 is 2000).         *)
(***************************************************************************)
EXTENDS Integers, Sequences, FiniteSets, TLC

VARIABLES
    is_connected,         \* DockerStats.is_connected
    container_histories,  \* st.session_state.container_histories
    last_refresh,         \* st.session_state.last_refresh
    history_limit,        \* the "History Data Points" slider
    now,                  \* time.time()
    run,                  \* what the last script run did and showed
    appended,             \* history variable: every record appended, per id
    limits_used,          \* history variable: history_limit of each refresh
    stats_in,             \* what the runtime answers to get_container_stats
    stats_out,            \* the value get_container_stats returns
    poll_in,              \* what the runtime answers during one poll
    poll_out,             \* what the script computes and shows from it
    pc,                   \* "ready" before a call, "done" after it
    sessions,             \* the browser sessions that share the DockerStats
    collector             \* the last call of a method of DockerStats

vars == <<is_connected, container_histories, last_refresh, history_limit,
          now, run, appended, limits_used, stats_in, stats_out,
          poll_in, poll_out, pc, sessions,
                  collector>>

app_vars == <<container_histories, last_refresh, history_limit, now, run,
              appended, limits_used>>

(***************************************************************************)
(* Python helpers                                                          *)
(***************************************************************************)

\* {}
EmptyDict == [k \in {} |-> 0]

\* None where the snapshot should hold a dict (JSON null)
None == [null |-> TRUE]

\* None where the snapshot should hold a list
NoneList == <<None>>

\* None where the snapshot should hold a number; counters are never negative
NoneInt == -1

\* d.get(k, default)
Get(d, k, default) == IF k \in DOMAIN d THEN d[k] ELSE default

\* the dicts that either lack key k or bind it to a value of S
Opt(k, S) == {EmptyDict} \cup {k :> v : v \in S}

\* round(n / d) for d > 0, ties to the even neighbour as Python's round()
RoundHalfEven(n, d) ==
    LET q == n \div d
        r == n % d
    IN  IF 2 * r < d THEN q
        ELSE IF 2 * r > d THEN q + 1
        ELSE IF q % 2 = 0 THEN q ELSE q + 1

\* round(n / d, 2), in hundredths
Round2(n, d) == RoundHalfEven(n * 100, d)

\* bytes per megabyte, 1024 * 1024
MB == 1048576

(***************************************************************************)
(* DockerStats.get_container_stats                                         *)
(***************************************************************************)

\* cpu_delta, docker_stats.py:145-150
CpuDelta(stats) ==
    IF /\ "cpu_usage" \in DOMAIN stats["cpu_stats"]
       /\ "cpu_usage" \in DOMAIN stats["precpu_stats"]
       /\ "total_usage" \in DOMAIN stats["cpu_stats"]["cpu_usage"]
       /\ "total_usage" \in DOMAIN stats["precpu_stats"]["cpu_usage"]
    THEN stats["cpu_stats"]["cpu_usage"]["total_usage"]
            - stats["precpu_stats"]["cpu_usage"]["total_usage"]
    ELSE 0

\* a mutant: a missing previous system_cpu_usage counts as 0
SystemDeltaFromZero(stats) ==
    IF "system_cpu_usage" \in DOMAIN stats["cpu_stats"]
    THEN stats["cpu_stats"]["system_cpu_usage"]
            - Get(stats["precpu_stats"], "system_cpu_usage", 0)
    ELSE 0

\* system_delta, docker_stats.py:146-153
SystemDelta(stats) ==
    IF /\ "system_cpu_usage" \in DOMAIN stats["cpu_stats"]
       /\ "system_cpu_usage" \in DOMAIN stats["precpu_stats"]
    THEN stats["cpu_stats"]["system_cpu_usage"]
            - stats["precpu_stats"]["system_cpu_usage"]
    ELSE 0

\* a mutant: the per-CPU list is ignored and the default is always 1
OnlineCpusDefaultOne(stats) == Get(stats["cpu_stats"], "online_cpus", 1)

\* online_cpus, docker_stats.py:155-156
OnlineCpus(stats) ==
    Get(stats["cpu_stats"], "online_cpus",
        Len(Get(Get(stats["cpu_stats"], "cpu_usage", EmptyDict),
                "percpu_usage", <<1>>)))

\* a mutant: the guard on cpu_delta is dropped
CpuPercentNoCpuGuard(stats) ==
    IF SystemDelta(stats) > 0
    THEN Round2(CpuDelta(stats) * OnlineCpus(stats) * 100, SystemDelta(stats))
    ELSE 0

\* a mutant: the CPU count is left out of the product
CpuPercentNoCpus(stats) ==
    IF SystemDelta(stats) > 0 /\ CpuDelta(stats) > 0
    THEN Round2(CpuDelta(stats) * 100, SystemDelta(stats))
    ELSE 0

\* round(cpu_percent, 2), docker_stats.py:158-160 and 237
CpuPercent(stats) ==
    IF SystemDelta(stats) > 0 /\ CpuDelta(stats) > 0
    THEN Round2(CpuDelta(stats) * OnlineCpus(stats) * 100, SystemDelta(stats))
    ELSE 0

\* cpu_system_percent, docker_stats.py:240
CpuSystemPercent(stats) ==
    IF SystemDelta(stats) > 0 /\ OnlineCpus(stats) > 0
    THEN Round2(SystemDelta(stats) * 100, OnlineCpus(stats))
    ELSE 0

\* mem_usage in bytes, docker_stats.py:170-171
MemUsage(stats) == Get(Get(stats, "memory_stats", EmptyDict), "usage", 0)

\* mem_limit in bytes, docker_stats.py:172
MemLimit(stats) == Get(Get(stats, "memory_stats", EmptyDict), "limit", 1)

\* round(mem_percent, 2), docker_stats.py:173 and 245
MemPercent(stats) ==
    IF MemLimit(stats) > 0
    THEN Round2(MemUsage(stats) * 100, MemLimit(stats))
    ELSE 0

\* cpu_throttled_periods and cpu_throttled_time, docker_stats.py:163-167
CpuThrottled(stats, k) ==
    IF "throttling_data" \in DOMAIN stats["cpu_stats"]
    THEN Get(stats["cpu_stats"]["throttling_data"], k, 0)
    ELSE 0

\* mem_stats.get('stats', {}), docker_stats.py:176-182
MemDetail(stats) ==
    Get(Get(stats, "memory_stats", EmptyDict), "stats", EmptyDict)

\* round(v / (1024 * 1024), 2) if v else 0, docker_stats.py:246-247
MegabytesOrZero(v) == IF v = NoneInt \/ v = 0 THEN 0 ELSE Round2(v, MB)

\* the sum of counter k over the interfaces, docker_stats.py:192-199
RECURSIVE NetworkTotal(_, _, _)
NetworkTotal(networks, interfaces, k) ==
    IF interfaces = {} THEN 0
    ELSE LET i == CHOOSE x \in interfaces : TRUE
         IN  Get(networks[i], k, 0)
             + NetworkTotal(networks, interfaces \ {i}, k)

\* network_rx, network_tx, ..., docker_stats.py:185-199
Network(stats, k) ==
    IF "networks" \in DOMAIN stats
    THEN NetworkTotal(stats["networks"], DOMAIN stats["networks"], k)
    ELSE 0

\* the sum of entry.get('value', 0) over the entries
RECURSIVE ValueTotal(_)
ValueTotal(entries) ==
    IF entries = <<>> THEN 0
    ELSE Get(Head(entries), "value", 0) + ValueTotal(Tail(entries))

\* the list k of blkio_stats, empty when absent or None,
\* docker_stats.py:207-225
BlkioList(stats, k) ==
    LET blkio_stats == Get(stats, "blkio_stats", EmptyDict)
    IN  IF k \in DOMAIN blkio_stats /\ blkio_stats[k] # NoneList
        THEN blkio_stats[k] ELSE <<>>

\* block_read and block_write, docker_stats.py:210-215
BlockBytes(stats, op) ==
    ValueTotal(SelectSeq(BlkioList(stats, "io_service_bytes_recursive"),
                         LAMBDA entry : Get(entry, "op", "") = op))

\* io_time and io_wait_time, docker_stats.py:218-225
IoTotal(stats, k) == ValueTotal(BlkioList(stats, k))

\* pids, docker_stats.py:228
Pids(stats) == Get(Get(stats, "pids_stats", EmptyDict), "current", 0)

\* A None where the code calls .get or .items() or tests "in", or adds a
\* counter, raises inside the try of get_container_stats,
\* docker_stats.py:165-228
RaisesOnNone(stats) ==
    \/ /\ "throttling_data" \in DOMAIN stats["cpu_stats"]
       /\ stats["cpu_stats"]["throttling_data"] = None
    \/ Get(stats, "memory_stats", EmptyDict) = None
    \/ MemDetail(stats) = None
    \/ /\ "networks" \in DOMAIN stats
       /\ \/ stats["networks"] = None
          \/ \E i \in DOMAIN stats["networks"] :
                \/ stats["networks"][i] = None
                \/ \E k \in DOMAIN stats["networks"][i] :
                      stats["networks"][i][k] = NoneInt
    \/ Get(stats, "blkio_stats", EmptyDict) = None
    \/ Get(stats, "pids_stats", EmptyDict) = None

\* container.name
NameOf(container_id) == IF container_id = "c1" THEN "web" ELSE "db"

\* the record of a container that is not running, docker_stats.py:124-130
\* (status "unknown": the snapshot is unusable, docker_stats.py:135-142)
MinimalRecord(container_id, status, t) ==
    [id |-> container_id, name |-> NameOf(container_id), status |-> status,
     running |-> FALSE, timestamp |-> t]

\* the record of a failed fetch, docker_stats.py:269-278; the name is
\* container_id[:12], and the ids polled are already the 12-character ids
ErrorRecord(container_id, t) ==
    [id |-> container_id, name |-> container_id, status |-> "error",
     running |-> FALSE, error |-> "exception", timestamp |-> t]

\* the record of a running container, docker_stats.py:230-268
FullRecord(container_id, stats, t) ==
    [id |-> container_id, name |-> NameOf(container_id), status |-> "running",
     running |-> TRUE,
     cpu_percent |-> CpuPercent(stats),
     cpu_throttled_periods |-> CpuThrottled(stats, "throttled_periods"),
     cpu_throttled_time |-> CpuThrottled(stats, "throttled_time"),
     cpu_system_percent |-> CpuSystemPercent(stats),
     mem_usage |-> Round2(MemUsage(stats), MB),
     mem_limit |-> Round2(MemLimit(stats), MB),
     mem_percent |-> MemPercent(stats),
     mem_cache |-> MegabytesOrZero(Get(MemDetail(stats), "cache", 0)),
     mem_swap |-> MegabytesOrZero(Get(MemDetail(stats), "swap", 0)),
     oom_kills |-> Get(MemDetail(stats), "oom_kills", 0),
     network_rx |-> Network(stats, "rx_bytes"),
     network_tx |-> Network(stats, "tx_bytes"),
     network_rx_dropped |-> Network(stats, "rx_dropped"),
     network_tx_dropped |-> Network(stats, "tx_dropped"),
     network_rx_errors |-> Network(stats, "rx_errors"),
     network_tx_errors |-> Network(stats, "tx_errors"),
     block_read |-> BlockBytes(stats, "Read"),
     block_write |-> BlockBytes(stats, "Write"),
     io_time |-> IoTotal(stats, "io_service_time_recursive"),
     io_wait_time |-> IoTotal(stats, "io_wait_time_recursive"),
     pids |-> Pids(stats),
     timestamp |-> t]

\* What the runtime answers when one container is fetched:
\*   get    "ok" | "raise"   client.containers.get(container_id)
\*   status container.status
\*   call   "ok" | "raise"   container.stats(stream=False)
\*   stats  the snapshot
\* get_container_stats, docker_stats.py:114-278
get_container_stats(connected, container_id, fetch, t) ==
    IF ~connected THEN EmptyDict
    ELSE IF fetch["get"] = "raise" THEN ErrorRecord(container_id, t)
    ELSE IF fetch["status"] # "running"
        THEN MinimalRecord(container_id, fetch["status"], t)
    ELSE IF fetch["call"] = "raise" THEN ErrorRecord(container_id, t)
    ELSE IF \/ fetch["stats"] = EmptyDict
            \/ "cpu_stats" \notin DOMAIN fetch["stats"]
            \/ "precpu_stats" \notin DOMAIN fetch["stats"]
        THEN MinimalRecord(container_id, "unknown", t)
    ELSE IF RaisesOnNone(fetch["stats"]) THEN ErrorRecord(container_id, t)
    ELSE FullRecord(container_id, fetch["stats"], t)

(***************************************************************************)
(* DockerStats.get_containers and get_all_container_stats                  *)
(***************************************************************************)

\* What the runtime answers to client.containers.list(all=True):
\*   ok    FALSE when the call raises (the runtime is unreachable)
\*   rows  one [id, status, attrs_ok] per container; attrs_ok is FALSE when
\*         reading the container's attributes or image raises
\* The rows of the listing before the first one whose attributes raise.
RECURSIVE RowsBeforeRaise(_)
RowsBeforeRaise(rows) ==
    IF rows = <<>> \/ ~Head(rows)["attrs_ok"] THEN <<>>
    ELSE <<[id |-> Head(rows)["id"], name |-> NameOf(Head(rows)["id"]),
            status |-> Head(rows)["status"]]>>
         \o RowsBeforeRaise(Tail(rows))

\* get_containers, docker_stats.py:28-93
get_containers(connected, listing) ==
    IF ~connected THEN <<>>
    ELSE IF ~listing["ok"] THEN <<>>
    ELSE RowsBeforeRaise(listing["rows"])

\* a mutant: a failed fetch ends the loop over the containers
RECURSIVE CollectStatsAbortOnError(_, _, _)
CollectStatsAbortOnError(containers, fetches, t) ==
    IF containers = <<>> THEN <<>>
    ELSE LET c == Head(containers)
             stats == get_container_stats(TRUE, c["id"], fetches[c["id"]], t)
         IN  IF c["status"] = "running" /\ stats # EmptyDict
             THEN IF "error" \in DOMAIN stats THEN <<stats>>
                  ELSE <<stats>>
                       \o CollectStatsAbortOnError(Tail(containers), fetches, t)
             ELSE CollectStatsAbortOnError(Tail(containers), fetches, t)

\* the loop of get_all_container_stats, docker_stats.py:288-293
RECURSIVE CollectStats(_, _, _)
CollectStats(containers, fetches, t) ==
    IF containers = <<>> THEN <<>>
    ELSE LET c == Head(containers)
             stats == get_container_stats(TRUE, c["id"], fetches[c["id"]], t)
         IN  IF c["status"] = "running" /\ stats # EmptyDict
             THEN <<stats>> \o CollectStats(Tail(containers), fetches, t)
             ELSE CollectStats(Tail(containers), fetches, t)

\* the value pandas fills in for a column the row's dict does not have: it
\* is no number, so it is below every percentage; in the text column it is
\* the text "NaN"
NaN(k) == IF k = "error" THEN "NaN" ELSE -1

\* the columns of pd.DataFrame(rows): every key of every row
Columns(rows) == UNION {DOMAIN rows[i] : i \in DOMAIN rows}

\* pd.DataFrame(rows), as the sequence of its rows; <<>> is the empty frame
DataFrame(rows) ==
    [i \in DOMAIN rows |->
        [k \in Columns(rows) |-> IF k \in DOMAIN rows[i] THEN rows[i][k]
                                 ELSE NaN(k)]]

\* get_all_container_stats, docker_stats.py:280-298
get_all_container_stats(connected, listing, fetches, t) ==
    IF ~connected THEN <<>>
    ELSE DataFrame(CollectStats(get_containers(connected, listing),
                                fetches, t))

\* a mutant: the answer of client.ping() is ignored
TestConnectionNoPing(connected, ping) == connected

\* test_docker_connection, docker_stats.py:369-378
test_docker_connection(connected, ping) == connected /\ ping

(***************************************************************************)
(* DockerStats: logs, events, system statistics                            *)
(***************************************************************************)

\* s[:n]
PyPrefix(s, n) == IF Len(s) <= n THEN s ELSE SubSeq(s, 1, n)

\* the lines of a text, the text being a sequence of characters of which
\* "\n" ends a line: str.splitlines()
RECURSIVE SplitLines(_, _)
SplitLines(text, line) ==
    IF text = <<>> THEN (IF line = <<>> THEN <<>> ELSE <<line>>)
    ELSE IF Head(text) = "\n" THEN <<line>> \o SplitLines(Tail(text), <<>>)
    ELSE SplitLines(Tail(text), Append(line, Head(text)))

\* What the runtime answers to get_container_logs:
\*   get   "ok" | "raise"   client.containers.get(container_id)
\*   logs  "ok" | "raise"   container.logs(tail=lines, timestamps=True)
\*   text  the bytes returned; "invalid" is a byte that is not UTF-8
\* a mutant: the logs are fetched without looking at is_connected
GetContainerLogsUnguarded(connected, answer) ==
    IF answer["get"] = "raise" \/ answer["logs"] = "raise" THEN <<>>
    ELSE IF \E i \in DOMAIN answer["text"] : answer["text"][i] = "invalid"
        THEN <<>>
    ELSE SplitLines(answer["text"], <<>>)

\* get_container_logs, docker_stats.py:300-311
get_container_logs(connected, answer) ==
    IF ~connected THEN <<>>
    ELSE IF answer["get"] = "raise" \/ answer["logs"] = "raise" THEN <<>>
    ELSE IF \E i \in DOMAIN answer["text"] : answer["text"][i] = "invalid"
        THEN <<>>
    ELSE SplitLines(answer["text"], <<>>)

\* the event lacks a key the loop reads, docker_stats.py:323-327
EventRaises(event) ==
    \/ ~({"time", "Type", "Action", "Actor"} \subseteq DOMAIN event)
    \/ "ID" \notin DOMAIN event["Actor"]

\* the dict appended for one event, docker_stats.py:322-328
EventEntry(event) ==
    [time |-> event["time"], type |-> event["Type"],
     action |-> event["Action"],
     id |-> PyPrefix(event["Actor"]["ID"], 12),
     attributes |-> Get(event["Actor"], "Attributes", EmptyDict)]

\* the sum of item[k] over the items
RECURSIVE SizeTotal(_, _)
SizeTotal(items, k) ==
    IF items = <<>> THEN 0
    ELSE Head(items)[k] + SizeTotal(Tail(items), k)

\* bytes per gigabyte, 1024 * 1024 * 1024
GB == 1073741824

\* What the runtime answers to get_system_stats:
\*   info_ok, info   client.info()
\*   df_ok, df       client.df()
\* get_system_stats, docker_stats.py:336-367; the sizes in GB are the
\* fractions num / GB
get_system_stats(connected, answer) ==
    IF ~connected THEN EmptyDict
    ELSE IF ~answer["info_ok"] \/ ~answer["df_ok"] THEN EmptyDict
    ELSE LET info == answer["info"]
             images == Get(answer["df"], "Images", <<>>)
             containers == SelectSeq(Get(answer["df"], "Containers", <<>>),
                                     LAMBDA c : "SizeRw" \in DOMAIN c)
         IN  IF \E i \in DOMAIN images : "Size" \notin DOMAIN images[i]
             THEN EmptyDict
             ELSE [containers_running |-> Get(info, "ContainersRunning", 0),
                   containers_paused |-> Get(info, "ContainersPaused", 0),
                   containers_stopped |-> Get(info, "ContainersStopped", 0),
                   images |-> Get(info, "Images", 0),
                   docker_version |-> Get(info, "ServerVersion", "Unknown"),
                   total_memory |-> [num |-> Get(info, "MemTotal", 0),
                                     den |-> GB],
                   cpu_count |-> Get(info, "NCPU", 0),
                   kernel_version |-> Get(info, "KernelVersion", "Unknown"),
                   operating_system |->
                       Get(info, "OperatingSystem", "Unknown"),
                   total_image_size |-> [num |-> SizeTotal(images, "Size"),
                                         den |-> GB],
                   total_container_size |->
                       [num |-> SizeTotal(containers, "SizeRw"), den |-> GB]]

\* the calls get_container_stats makes to the Docker client,
\* docker_stats.py:119-132
StatsRuntime(connected, fetch) ==
    IF ~connected THEN <<>>
    ELSE IF fetch["get"] = "ok" /\ fetch["status"] = "running"
        THEN <<"containers.get", "container.stats">>
    ELSE <<"containers.get">>

\* the calls get_containers makes, docker_stats.py:33-35
ListRuntime(connected) == IF ~connected THEN <<>> ELSE <<"containers.list">>

\* the calls of the loop of get_all_container_stats, docker_stats.py:288-291
RECURSIVE LoopRuntime(_, _)
LoopRuntime(containers, fetches) ==
    IF containers = <<>> THEN <<>>
    ELSE (IF Head(containers)["status"] = "running"
          THEN StatsRuntime(TRUE, fetches[Head(containers)["id"]])
          ELSE <<>>)
         \o LoopRuntime(Tail(containers), fetches)

\* the calls get_all_container_stats makes, docker_stats.py:280-298
AllStatsRuntime(connected, listing, fetches) ==
    IF ~connected THEN <<>>
    ELSE ListRuntime(connected)
         \o LoopRuntime(get_containers(connected, listing), fetches)

(***************************************************************************)
(* The script of src/app.py                                                *)
(***************************************************************************)

\* s[-n:]
PySuffix(s, n) ==
    IF n = 0 \/ Len(s) <= n THEN s ELSE SubSeq(s, Len(s) - n + 1, Len(s))

\* a mutant: the surplus is cut from the tail, s[:n]
TrimKeepOldest(s, limit) == IF Len(s) > limit THEN SubSeq(s, 1, limit) ELSE s

\* a mutant: the history is cut only once it is two over the limit
TrimLate(s, limit) == IF Len(s) > limit + 1 THEN PySuffix(s, limit) ELSE s

\* "Limit history size", app.py:81-83
Trim(s, limit) == IF Len(s) > limit THEN PySuffix(s, limit) ELSE s

\* a mutant: the store is replaced by one that holds only the row's id
AppendRowDropOthers(histories, row, limit) ==
    row["id"] :> Trim(Append(Get(histories, row["id"], <<>>), row), limit)

\* one pass of the update loop, app.py:70-83
AppendRow(histories, row, limit) ==
    LET container_id == row["id"]
        h == IF container_id \notin DOMAIN histories
             THEN histories @@ (container_id :> <<>>)
             ELSE histories
    IN  [h EXCEPT ![container_id] = Trim(Append(h[container_id], row), limit)]

\* "Update container histories", app.py:70-83
RECURSIVE UpdateHistories(_, _, _)
UpdateHistories(histories, df, limit) ==
    IF df = <<>> THEN histories
    ELSE UpdateHistories(AppendRow(histories, Head(df), limit), Tail(df), limit)

\* the rows handed to metrics.display_summary_metrics, app.py:95-96
SummaryRows(all_stats_df) == all_stats_df

\* a mutant: the largest value of the column instead of the sum
RECURSIVE ColumnMax(_, _)
ColumnMax(df, k) ==
    IF df = <<>> THEN 0
    ELSE LET m == ColumnMax(Tail(df), k)
         IN  IF Head(df)[k] > m THEN Head(df)[k] ELSE m

\* stats_df[k].sum(): pandas skips the cells that hold no number
RECURSIVE ColumnSum(_, _)
ColumnSum(df, k) ==
    IF df = <<>> THEN 0
    ELSE (IF Head(df)[k] = NaN(k) THEN 0 ELSE Head(df)[k])
         + ColumnSum(Tail(df), k)

\* stats_df[k].count(), the number of cells that stats_df[k].mean()
\* averages
ColumnCount(df, k) == Len(SelectSeq(df, LAMBDA row : row[k] # NaN(k)))

\* total_mem_limit = stats_df['mem_limit'].mean() * len(stats_df), as the
\* fraction num / den, metrics.py:122
TotalMemLimit(stats_df) ==
    [num |-> ColumnSum(stats_df, "mem_limit") * Len(stats_df),
     den |-> ColumnCount(stats_df, "mem_limit")]

\* total_mem_percent, as a fraction, metrics.py:124-127
TotalMemPercent(total_mem_usage, total_mem_limit) ==
    IF total_mem_limit["den"] > 0 /\ total_mem_limit["num"] > 0
    THEN [num |-> total_mem_usage * 100 * total_mem_limit["den"],
          den |-> total_mem_limit["num"]]
    ELSE [num |-> 0, den |-> 1]

\* nothing is computed for an empty frame, metrics.py:114-115
NoSummary == [outcome |-> "none"]

\* display_summary_metrics, metrics.py:107-182: what it computes, or the
\* KeyError of stats_df['cpu_percent'] when no row has that key
display_summary_metrics(stats_df) ==
    IF stats_df = <<>> THEN NoSummary
    ELSE IF "cpu_percent" \notin DOMAIN stats_df[1]
        THEN [outcome |-> "KeyError"]
    ELSE [outcome |-> "shown",
          total_cpu |-> ColumnSum(stats_df, "cpu_percent"),
          total_mem_usage |-> ColumnSum(stats_df, "mem_usage"),
          total_mem_limit |-> TotalMemLimit(stats_df),
          total_mem_percent |->
              TotalMemPercent(ColumnSum(stats_df, "mem_usage"),
                              TotalMemLimit(stats_df)),
          containers |-> Len(stats_df),
          total_network_rx |-> ColumnSum(stats_df, "network_rx"),
          total_network_tx |-> ColumnSum(stats_df, "network_tx"),
          total_block_read |-> ColumnSum(stats_df, "block_read"),
          total_block_write |-> ColumnSum(stats_df, "block_write"),
          total_pids |-> IF "pids" \in DOMAIN stats_df[1]
                         THEN ColumnSum(stats_df, "pids") ELSE 0]

\* the summary of a run, app.py:95-96
Summary(all_stats_df) ==
    IF all_stats_df # <<>>
    THEN display_summary_metrics(SummaryRows(all_stats_df))
    ELSE NoSummary

\* what the run shows below the title, app.py:95-120; the KeyError of the
\* summary ends the run at app.py:96
Shown(all_stats_df, containers_df) ==
    IF Summary(all_stats_df)["outcome"] = "KeyError"
    THEN {"KeyError: 'cpu_percent'"}
    ELSE (IF all_stats_df # <<>> THEN {"summary"} ELSE {})
         \cup (IF containers_df # <<>> THEN {"container_list"}
               ELSE {"No running containers found"})

\* The part of a run after the connection check that does not depend on the
\* session: the poll (app.py:67 or 92), the listing (app.py:88 or 91) and
\* what is shown (app.py:95-120).  p is what the runtime answers:
\*   listing, fetches   to get_all_container_stats
\*   listing2           to the script's own get_containers call
View(connected, p, t) ==
    LET all_stats_df == get_all_container_stats(connected, p["listing"],
                                                p["fetches"], t)
        containers_df == DataFrame(get_containers(connected, p["listing2"]))
    IN  [all_stats_df |-> all_stats_df,
         containers_df |-> containers_df,
         summary_rows |-> SummaryRows(all_stats_df),
         summary |-> Summary(all_stats_df),
         shown |-> Shown(all_stats_df, containers_df)]

(***************************************************************************)
(* Bounds and inputs                                                       *)
(***************************************************************************)

\* the clock stops the model at MaxTime; a run takes 1..MaxDt ticks
MaxTime == 5
MaxDt == 1

\* "History Data Points" slider, app.py:56-61: 10..500, default 100,
\* scaled down
HistoryLimitMin == 2
HistoryLimitMax == 3
HistoryLimits == HistoryLimitMin..HistoryLimitMax
HistoryLimitDefault == HistoryLimitMax

\* "Refresh Interval" slider, app.py:45-50: 2..60, default 5, the upper end
\* scaled down
RefreshIntervalMin == 2
RefreshIntervalMax == 3
RefreshIntervals == RefreshIntervalMin..RefreshIntervalMax
RefreshIntervalDefault == RefreshIntervalMax

\* st.session_state has no 'last_refresh' yet
Unset == -1

ContainerIds == {"c1", "c2"}

\* raw counters of the snapshots
TotalUsageValues == {0, 100, 300}
SystemUsageValues == {0, 1000, 3000}
OnlineCpusValues == {0, 1, 2}
PercpuUsageValues == {<<>>, <<100>>, <<100, 200>>}
MemUsageValues == {5}
MemLimitValues == {0, 3}

CpuUsageDicts ==
    {a @@ b : a \in Opt("total_usage", TotalUsageValues),
              b \in Opt("percpu_usage", PercpuUsageValues)}

CpuStatsDicts ==
    {a @@ b @@ c : a \in Opt("cpu_usage", CpuUsageDicts),
                   b \in Opt("system_cpu_usage", SystemUsageValues),
                   c \in Opt("online_cpus", OnlineCpusValues)}

PreCpuStatsDicts ==
    {a @@ b : a \in Opt("cpu_usage", Opt("total_usage", TotalUsageValues)),
              b \in Opt("system_cpu_usage", SystemUsageValues)}

MemoryStatsDicts ==
    {a @@ b : a \in Opt("usage", MemUsageValues),
              b \in Opt("limit", MemLimitValues)}

\* snapshots with both cpu_stats and precpu_stats
Snapshots ==
    {("cpu_stats" :> c) @@ ("precpu_stats" :> p) @@ m :
        c \in CpuStatsDicts, p \in PreCpuStatsDicts,
        m \in Opt("memory_stats", MemoryStatsDicts)}

\* snapshots get_container_stats cannot use
InvalidSnapshots ==
    {EmptyDict, "cpu_stats" :> EmptyDict, "precpu_stats" :> EmptyDict}

\* total_usage 100 -> 300, system_cpu_usage 1000 -> 3000, two CPUs
ScenarioA ==
    ("cpu_stats" :> [cpu_usage |-> [total_usage |-> 300],
                     system_cpu_usage |-> 3000, online_cpus |-> 2])
    @@ ("precpu_stats" :> [cpu_usage |-> [total_usage |-> 100],
                           system_cpu_usage |-> 1000])
    @@ ("memory_stats" :> [usage |-> 20972, limit |-> 41944])

\* total_usage 100 -> 200, system_cpu_usage 1000 -> 3000, one CPU, with
\* network, block-I/O and process counters
ScenarioB ==
    ("cpu_stats" :> [cpu_usage |-> [total_usage |-> 200],
                     system_cpu_usage |-> 3000, online_cpus |-> 1])
    @@ ("precpu_stats" :> [cpu_usage |-> [total_usage |-> 100],
                           system_cpu_usage |-> 1000])
    @@ ("memory_stats" :> [usage |-> 10486, limit |-> 104858])
    @@ ("networks" :> ("eth0" :> [rx_bytes |-> 10, tx_bytes |-> 20]))
    @@ ("blkio_stats" :> [io_service_bytes_recursive |->
                              <<[op |-> "Read", value |-> 4],
                                [op |-> "Write", value |-> 6]>>])
    @@ ("pids_stats" :> [current |-> 3])

\* the first sample of a container as the runtime reports it: no previous
\* system_cpu_usage, previous total_usage 0
FirstSample ==
    ("cpu_stats" :> [cpu_usage |-> [total_usage |-> 300],
                     system_cpu_usage |-> 3000, online_cpus |-> 2])
    @@ ("precpu_stats" :> [cpu_usage |-> [total_usage |-> 0]])
    @@ ("memory_stats" :> [usage |-> 20972, limit |-> 41944])
    @@ ("pids_stats" :> [current |-> 3])

\* the optional parts of a snapshot: absent (left out by Opt), None, empty,
\* or filled
ThrottlingDataValues ==
    {None, EmptyDict, [throttled_periods |-> 2, throttled_time |-> 7]}

MemDetailValues ==
    {None, EmptyDict, [cache |-> NoneInt, swap |-> NoneInt],
     [cache |-> 20972, swap |-> 10486, oom_kills |-> 1]}

NetworksValues ==
    {None, EmptyDict, "eth0" :> EmptyDict, "eth0" :> None,
     ("eth0" :> [rx_bytes |-> 10, tx_bytes |-> 20])
        @@ ("eth1" :> [rx_bytes |-> 1, rx_dropped |-> 1, tx_errors |-> 2])}

BlkioValues ==
    {None, EmptyDict,
     [io_service_bytes_recursive |-> NoneList,
      io_service_time_recursive |-> NoneList,
      io_wait_time_recursive |-> NoneList],
     [io_service_bytes_recursive |->
          <<[op |-> "Read", value |-> 4], [op |-> "Write", value |-> 6],
            [op |-> "Read", value |-> 1], [op |-> "Sync", value |-> 9]>>,
      io_service_time_recursive |-> <<[op |-> "Read", value |-> 3]>>,
      io_wait_time_recursive |-> <<[op |-> "Write", value |-> 2]>>]}

PidsValues == {None, EmptyDict, [current |-> 3]}

\* ScenarioA with every choice of the optional parts
OptionalSnapshots ==
    {("cpu_stats" :> (ScenarioA["cpu_stats"] @@ th))
     @@ ("precpu_stats" :> ScenarioA["precpu_stats"])
     @@ ("memory_stats" :> (ScenarioA["memory_stats"] @@ md))
     @@ nw @@ bl @@ pi :
        th \in Opt("throttling_data", ThrottlingDataValues),
        md \in Opt("stats", MemDetailValues),
        nw \in Opt("networks", NetworksValues),
        bl \in Opt("blkio_stats", BlkioValues),
        pi \in Opt("pids_stats", PidsValues)}

\* the answers of the runtime to one fetch
FetchGone == [get |-> "raise", status |-> "removed", call |-> "raise",
              stats |-> EmptyDict]
FetchStatus(status) == [get |-> "ok", status |-> status, call |-> "raise",
                        stats |-> EmptyDict]
FetchStatsRaise == [get |-> "ok", status |-> "running", call |-> "raise",
                    stats |-> EmptyDict]
FetchStats(stats) == [get |-> "ok", status |-> "running", call |-> "ok",
                      stats |-> stats]

Fetches ==
    {FetchGone, FetchStatus("exited"), FetchStatus("paused"), FetchStatsRaise}
    \cup {FetchStats(s) :
            s \in Snapshots \cup OptionalSnapshots \cup InvalidSnapshots}

\* the fetches of the polls
PollFetches ==
    {FetchGone, FetchStatus("exited"), FetchStatsRaise, FetchStats(ScenarioA),
     FetchStats(ScenarioB), FetchStats(FirstSample),
     FetchStats("cpu_stats" :> EmptyDict)}

\* the fetches of the polls of the script: c1 can have stopped since it was
\* listed
AppFetches ==
    {f \in [ContainerIds -> {FetchStatus("exited"), FetchStats(ScenarioA)}] :
        f["c2"] = FetchStats(ScenarioA)}

\* the rows a listing can have for one container
RowOptions(container_id) ==
    {<<>>} \cup {<<[id |-> container_id, status |-> st, attrs_ok |-> ok]>> :
                    st \in {"running", "exited"}, ok \in BOOLEAN}

\* the listings: the call raises, or it returns the containers in a fixed
\* order
Listings ==
    {[ok |-> FALSE, rows |-> <<>>]}
    \cup {[ok |-> TRUE, rows |-> a \o b] :
            a \in RowOptions("c1"), b \in RowOptions("c2")}

\* the listings of the script: no row raises
AppListings ==
    {l \in Listings : \A i \in DOMAIN l["rows"] : l["rows"][i]["attrs_ok"]}

Polls ==
    [listing : Listings, fetches : [ContainerIds -> PollFetches],
     listing2 : {[ok |-> FALSE, rows |-> <<>>],
                 [ok |-> TRUE, rows |-> <<>>],
                 [ok |-> TRUE, rows |-> <<[id |-> "c1", status |-> "running",
                                          attrs_ok |-> TRUE]>>]}]

\* get_container_events: limit is 0..MaxLimit, the stream delivers up to
\* MaxStreamLen events
MaxLimit == 3
MaxStreamLen == 2

\* a 14-character and a 3-character Actor ID
LongId == [i \in 1..14 |-> i]
ShortId == <<1, 2, 3>>

\* the events of the streams; the last one lacks 'Action'
Events ==
    {[time |-> 1, Type |-> "container", Action |-> "start",
      Actor |-> [ID |-> LongId, Attributes |-> [name |-> "web"]]],
     [time |-> 2, Type |-> "container", Action |-> "die",
      Actor |-> [ID |-> ShortId]],
     [time |-> 3, Type |-> "container", Actor |-> [ID |-> ShortId]]}

\* client.events(decode=True, ...): the events it delivers; then the
\* generator ends ("closed"), raises ("raise"), or waits for an event that
\* never comes ("silent")
Streams ==
    [events : UNION {[1..n -> Events] : n \in 0..MaxStreamLen},
     then : {"closed", "raise", "silent"}]

\* the answers of the runtime to get_container_logs
LogAnswers ==
    [get : {"ok", "raise"}, logs : {"ok", "raise"},
     text : {<<>>, <<"a">>, <<"a", "\n">>, <<"\n">>,
             <<"a", "\n", "\n", "b">>, <<"a", "invalid">>}]

\* the answers of the runtime to get_system_stats
SystemAnswers ==
    [info_ok : BOOLEAN, df_ok : BOOLEAN,
     info : {EmptyDict,
             [ContainersRunning |-> 2, ContainersStopped |-> 1,
              Images |-> 3, ServerVersion |-> "24.0", MemTotal |-> 2048,
              NCPU |-> 4]},
     df : {EmptyDict,
           [Images |-> <<[Size |-> 100], [Size |-> 50]>>,
            Containers |-> <<[SizeRw |-> 7], [Id |-> 1]>>],
           [Images |-> <<[Id |-> 1]>>]}]

\* the fetches of the polls of the collector
CollectorFetches ==
    [ContainerIds ->
        {FetchGone, FetchStatus("exited"), FetchStats(ScenarioA)}]

(***************************************************************************)
(* The session: one action per path of a script run                        *)
(***************************************************************************)

\* a run that has not happened
\* run, before the first run:
\*   outcome           "stopped" | "refreshed" | "cached"
\*   ping              what client.ping() answered
\*   calls             the methods of DockerStats the run called, in order
\*   connect_error     the run showed "Cannot connect to Docker"
\*   refresh           the button was pressed
\*   refresh_interval  the value of the slider
NoRun == [outcome |-> "none", ping |-> FALSE, calls |-> <<>>,
          connect_error |-> FALSE, refresh |-> FALSE,
          refresh_interval |-> RefreshIntervalDefault]

NoPoll == [listing |-> [ok |-> FALSE, rows |-> <<>>],
           fetches |-> [c \in ContainerIds |-> FetchGone],
           listing2 |-> [ok |-> FALSE, rows |-> <<>>]]

NoView == [all_stats_df |-> <<>>, containers_df |-> <<>>,
           summary_rows |-> <<>>, summary |-> NoSummary, shown |-> {}]

\* collector, before the first call:
\*   op       the method called
\*   pc       "returned", or "iterating" inside the loop over the events
\*   result   the value returned
\*   runtime  the calls made to the Docker client, in order
\*   limit, stream, events   the arguments and locals of get_container_events
NoCall == [op |-> "none", pc |-> "returned", result |-> <<>>,
           runtime |-> <<>>, limit |-> 0,
           stream |-> [events |-> <<>>, then |-> "closed"], events |-> <<>>]

\* the browser sessions: each has its own st.session_state and its own
\* script thread; get_docker_stats is a st.cache_resource, so all of them
\* use the one DockerStats, app.py:19-23
SessionIds == {"s1", "s2"}

\* a session after its first run, app.py:11-16: the script is not running
IdleSession == [pc |-> "idle", container_histories |-> EmptyDict,
                last_refresh |-> 0]

\* the variables of the calls checked on their own
CallInit ==
    /\ stats_in = FetchGone
    /\ stats_out = EmptyDict
    /\ poll_in = NoPoll
    /\ poll_out = NoView
    /\ pc = "ready"
    /\ sessions = [s \in SessionIds |-> IdleSession]
    /\ collector = NoCall

\* the session before its first run: session_state is empty, app.py:11-16;
\* DockerStats() has connected or not, docker_stats.py:19-26
SessionInit ==
    /\ container_histories = EmptyDict
    /\ last_refresh = Unset
    /\ history_limit = HistoryLimitDefault
    /\ now = 0
    /\ run = NoRun
    /\ appended = EmptyDict
    /\ limits_used = {}

Init ==
    /\ is_connected \in BOOLEAN
    /\ SessionInit
    /\ CallInit

\* the widgets of the sidebar were drawn by the previous run, so the user
\* can have moved the sliders or pressed the button
Rendered == run["outcome"] \in {"refreshed", "cached"}

\* a mutant: last_refresh starts long ago instead of at the current time
LastRefreshLongAgo(t) ==
    IF last_refresh = Unset THEN t - (RefreshIntervalMax + 1)
    ELSE last_refresh

\* st.session_state.last_refresh after app.py:15-16
LastRefresh(t) == IF last_refresh = Unset THEN t ELSE last_refresh

\* the values the widgets can return in this run, app.py:45-61
IntervalChoices == IF Rendered THEN RefreshIntervals
                   ELSE {RefreshIntervalDefault}
ButtonChoices == IF Rendered THEN BOOLEAN ELSE {FALSE}
LimitChoices == IF Rendered THEN HistoryLimits ELSE {history_limit}

\* what client.ping() can answer; a DockerStats that is not connected does
\* not call it, docker_stats.py:371-372
PingAnswers == IF is_connected THEN BOOLEAN ELSE {FALSE}

\* the frames get_all_container_stats can return at time t
PollResults(t) ==
    {get_all_container_stats(is_connected, l, f, t) :
        l \in AppListings, f \in AppFetches}

\* a mutant: the refresh condition ignores the button
RefreshDueNoButton(t, interval, refresh) == (t - LastRefresh(t)) > interval

\* the condition of the auto-refresh block, app.py:64
RefreshDue(t, interval, refresh) ==
    (t - LastRefresh(t)) > interval \/ refresh

\* every record appended for each id, never trimmed
RECURSIVE Record(_, _)
Record(log, df) ==
    IF df = <<>> THEN log
    ELSE LET container_id == Head(df)["id"]
             l == IF container_id \notin DOMAIN log
                  THEN log @@ (container_id :> <<>>) ELSE log
         IN  Record([l EXCEPT ![container_id] = Append(@, Head(df))],
                    Tail(df))

\* the connection check fails and the run stops, app.py:37-39
RunStopped ==
    \E dt \in 1..MaxDt, ping \in PingAnswers :
        /\ now + dt <= MaxTime
        /\ ~test_docker_connection(is_connected, ping)
        /\ now' = now + dt
        /\ last_refresh' = LastRefresh(now')
        /\ run' = [outcome |-> "stopped", ping |-> ping,
                   calls |-> <<"test_docker_connection">>,
                   connect_error |-> TRUE, refresh |-> FALSE,
                   refresh_interval |-> RefreshIntervalDefault]
        /\ UNCHANGED <<is_connected, container_histories, history_limit,
                       appended, limits_used, stats_in, stats_out,
                       poll_in, poll_out, pc, sessions,
                               collector>>

\* a run that refreshes, app.py:64-88
RunRefresh ==
    \E dt \in 1..MaxDt, ping \in PingAnswers, interval \in IntervalChoices,
       refresh \in ButtonChoices, limit \in LimitChoices :
        /\ now + dt <= MaxTime
        /\ test_docker_connection(is_connected, ping)
        /\ RefreshDue(now + dt, interval, refresh)
        /\ now' = now + dt
        /\ history_limit' = limit
        /\ \E all_stats_df \in PollResults(now') :
            /\ container_histories' =
                  UpdateHistories(container_histories, all_stats_df, limit)
            /\ appended' = Record(appended, all_stats_df)
        /\ limits_used' = limits_used \cup {limit}
        /\ last_refresh' = now'
        /\ run' = [outcome |-> "refreshed", ping |-> ping,
                   calls |-> <<"test_docker_connection",
                               "get_all_container_stats", "get_containers">>,
                   connect_error |-> FALSE, refresh |-> refresh,
                   refresh_interval |-> interval]
        /\ UNCHANGED <<is_connected, stats_in, stats_out, poll_in, poll_out,
                       pc, sessions,
                               collector>>

\* a run that does not refresh, app.py:89-92; its poll is only shown
RunCached ==
    \E dt \in 1..MaxDt, ping \in PingAnswers, interval \in IntervalChoices,
       refresh \in ButtonChoices, limit \in LimitChoices :
        /\ now + dt <= MaxTime
        /\ test_docker_connection(is_connected, ping)
        /\ ~RefreshDue(now + dt, interval, refresh)
        /\ now' = now + dt
        /\ history_limit' = limit
        /\ last_refresh' = LastRefresh(now')
        /\ run' = [outcome |-> "cached", ping |-> ping,
                   calls |-> <<"test_docker_connection", "get_containers",
                               "get_all_container_stats">>,
                   connect_error |-> FALSE, refresh |-> refresh,
                   refresh_interval |-> interval]
        /\ UNCHANGED <<is_connected, container_histories, appended,
                       limits_used, stats_in, stats_out, poll_in, poll_out,
                       pc, sessions,
                               collector>>

Next == RunStopped \/ RunRefresh \/ RunCached

Spec == Init /\ [][Next]_vars

(***************************************************************************)
(* get_container_stats on its own, over every answer of the runtime        *)
(***************************************************************************)

StatsInit ==
    /\ is_connected \in BOOLEAN
    /\ SessionInit
    /\ stats_in \in Fetches
    /\ stats_out = EmptyDict
    /\ poll_in = NoPoll
    /\ poll_out = NoView
    /\ pc = "ready"
    /\ sessions = [s \in SessionIds |-> IdleSession]
    /\ collector = NoCall

CallGetContainerStats ==
    /\ pc = "ready"
    /\ pc' = "done"
    /\ stats_out' = get_container_stats(is_connected, "c1", stats_in, 1)
    /\ UNCHANGED <<is_connected, stats_in, poll_in, poll_out, sessions,
            collector>>
    /\ UNCHANGED app_vars

SpecStats == StatsInit /\ [][CallGetContainerStats]_vars

(***************************************************************************)
(* One poll and its display, over every answer of the runtime              *)
(***************************************************************************)

\* the session after a first run that did not refresh
PollSessionInit ==
    /\ container_histories = EmptyDict
    /\ last_refresh = 0
    /\ history_limit = HistoryLimitDefault
    /\ now = 0
    /\ run = [outcome |-> "cached", ping |-> TRUE,
              calls |-> <<"test_docker_connection", "get_containers",
                          "get_all_container_stats">>,
              connect_error |-> FALSE, refresh |-> FALSE,
              refresh_interval |-> RefreshIntervalDefault]
    /\ appended = EmptyDict
    /\ limits_used = {}

PollInit ==
    /\ is_connected = TRUE
    /\ PollSessionInit
    /\ stats_in = FetchGone
    /\ stats_out = EmptyDict
    /\ poll_in \in Polls
    /\ poll_out = NoView
    /\ pc = "ready"
    /\ sessions = [s \in SessionIds |-> IdleSession]
    /\ collector = NoCall

\* a run that refreshes because the button was pressed, past the connection
\* check, app.py:64-120
PollAndShow ==
    /\ pc = "ready"
    /\ pc' = "done"
    /\ now' = 1
    /\ poll_out' = View(is_connected, poll_in, now')
    /\ container_histories' =
          UpdateHistories(container_histories, poll_out'["all_stats_df"],
                          history_limit)
    /\ appended' = Record(appended, poll_out'["all_stats_df"])
    /\ limits_used' = limits_used \cup {history_limit}
    /\ last_refresh' = now'
    /\ run' = [outcome |-> "refreshed", ping |-> TRUE,
               calls |-> <<"test_docker_connection",
                           "get_all_container_stats", "get_containers">>,
               connect_error |-> FALSE, refresh |-> TRUE,
               refresh_interval |-> RefreshIntervalDefault]
    /\ UNCHANGED <<is_connected, history_limit, stats_in, stats_out,
                   poll_in, sessions,
                           collector>>

SpecPoll == PollInit /\ [][PollAndShow]_vars

(***************************************************************************)
(* Sessions sharing the cached DockerStats                                 *)
(***************************************************************************)

\* what the runtime answers to the polls of the sessions: both containers
\* run
SessionsFrame(t) ==
    get_all_container_stats(
        TRUE,
        [ok |-> TRUE,
         rows |-> <<[id |-> "c1", status |-> "running", attrs_ok |-> TRUE],
                    [id |-> "c2", status |-> "running", attrs_ok |-> TRUE]>>],
        [c \in ContainerIds |-> FetchStats(ScenarioA)], t)

SessionsInit ==
    /\ is_connected = TRUE
    /\ SessionInit
    /\ CallInit

\* time passes
Tick ==
    /\ now < MaxTime
    /\ now' = now + 1
    /\ UNCHANGED <<is_connected, container_histories, last_refresh,
                   history_limit, run, appended, limits_used, stats_in,
                   stats_out, poll_in, poll_out, pc, sessions,
                           collector>>

\* a run of session s reaches the refresh block with the interval passed or
\* the button pressed and calls get_all_container_stats, app.py:64-67;
\* nothing in the script or in DockerStats waits for another session
BeginPoll(s) ==
    /\ sessions[s]["pc"] = "idle"
    /\ \E refresh \in BOOLEAN :
          \/ (now - sessions[s]["last_refresh"]) > RefreshIntervalDefault
          \/ refresh
    /\ sessions' = [sessions EXCEPT ![s]["pc"] = "polling"]
    /\ UNCHANGED <<is_connected, container_histories, last_refresh,
                   history_limit, now, run, appended, limits_used, stats_in,
                   stats_out, poll_in, poll_out, pc, collector>>

\* get_all_container_stats returns and the run of session s updates the
\* histories and last_refresh of its session_state, app.py:70-85
EndPoll(s) ==
    /\ sessions[s]["pc"] = "polling"
    /\ sessions' =
          [sessions EXCEPT ![s] =
              [pc |-> "idle",
               container_histories |->
                   UpdateHistories(sessions[s]["container_histories"],
                                   SessionsFrame(now), HistoryLimitDefault),
               last_refresh |-> now]]
    /\ UNCHANGED <<is_connected, container_histories, last_refresh,
                   history_limit, now, run, appended, limits_used, stats_in,
                   stats_out, poll_in, poll_out, pc, collector>>

SessionsNext == Tick \/ \E s \in SessionIds : BeginPoll(s) \/ EndPoll(s)

SpecSessions == SessionsInit /\ [][SessionsNext]_vars

(***************************************************************************)
(* The methods of DockerStats, called one at a time                        *)
(***************************************************************************)

\* DockerStats(): docker.from_env() returned or raised, docker_stats.py:19-26
CollectorInit ==
    /\ is_connected \in BOOLEAN
    /\ SessionInit
    /\ CallInit

\* the call of a method that returns at once
Returned(op, result, runtime) ==
    /\ collector' = [NoCall EXCEPT !["op"] = op, !["result"] = result,
                                   !["runtime"] = runtime]
    /\ UNCHANGED <<is_connected, container_histories, last_refresh,
                   history_limit, now, run, appended, limits_used, stats_in,
                   stats_out, poll_in, poll_out, pc, sessions>>

CallGetContainers ==
    \E listing \in Listings :
        /\ collector["pc"] = "returned"
        /\ Returned("get_containers", get_containers(is_connected, listing),
                    ListRuntime(is_connected))

CallGetStats ==
    \E id \in ContainerIds, fetch \in PollFetches :
        /\ collector["pc"] = "returned"
        /\ Returned("get_container_stats",
                    get_container_stats(is_connected, id, fetch, 1),
                    StatsRuntime(is_connected, fetch))

CallGetAllStats ==
    \E listing \in Listings, fetches \in CollectorFetches :
        /\ collector["pc"] = "returned"
        /\ Returned("get_all_container_stats",
                    get_all_container_stats(is_connected, listing, fetches, 1),
                    AllStatsRuntime(is_connected, listing, fetches))

CallGetLogs ==
    \E answer \in LogAnswers :
        /\ collector["pc"] = "returned"
        /\ Returned("get_container_logs",
                    get_container_logs(is_connected, answer),
                    IF ~is_connected THEN <<>>
                    ELSE IF answer["get"] = "raise" THEN <<"containers.get">>
                    ELSE <<"containers.get", "container.logs">>)

CallGetSystemStats ==
    \E answer \in SystemAnswers :
        /\ collector["pc"] = "returned"
        /\ Returned("get_system_stats", get_system_stats(is_connected, answer),
                    IF ~is_connected THEN <<>>
                    ELSE IF ~answer["info_ok"] THEN <<"client.info">>
                    ELSE <<"client.info", "client.df">>)

CallTestConnection ==
    \E ping \in PingAnswers :
        /\ collector["pc"] = "returned"
        /\ Returned("test_docker_connection",
                    test_docker_connection(is_connected, ping),
                    IF is_connected THEN <<"client.ping">> ELSE <<>>)

\* get_container_events up to the loop, docker_stats.py:313-321
CallGetEvents ==
    \E limit \in 0..MaxLimit, stream \in Streams :
        /\ collector["pc"] = "returned"
        /\ collector' =
              IF ~is_connected
              THEN [NoCall EXCEPT !["op"] = "get_container_events",
                                  !["limit"] = limit, !["stream"] = stream]
              ELSE [NoCall EXCEPT !["op"] = "get_container_events",
                                  !["pc"] = "iterating",
                                  !["runtime"] = <<"client.events">>,
                                  !["limit"] = limit, !["stream"] = stream]
        /\ UNCHANGED <<is_connected, container_histories, last_refresh,
                       history_limit, now, run, appended, limits_used,
                       stats_in, stats_out, poll_in, poll_out, pc, sessions>>

\* one pass of the loop: the stream delivers its next event,
\* docker_stats.py:321-330; a missing key ends the call in the except
\* branch, 332-334
EventArrives ==
    /\ collector["pc"] = "iterating"
    /\ Len(collector["events"]) < Len(collector["stream"]["events"])
    /\ LET event ==
              collector["stream"]["events"][Len(collector["events"]) + 1]
           events == Append(collector["events"], EventEntry(event))
       IN  collector' =
              IF EventRaises(event)
              THEN [collector EXCEPT !["pc"] = "returned",
                                     !["result"] = <<>>]
              ELSE IF Len(events) >= collector["limit"]
              THEN [collector EXCEPT !["pc"] = "returned",
                                     !["events"] = events,
                                     !["result"] = events]
              ELSE [collector EXCEPT !["events"] = events]
    /\ UNCHANGED <<is_connected, container_histories, last_refresh,
                   history_limit, now, run, appended, limits_used, stats_in,
                   stats_out, poll_in, poll_out, pc, sessions>>

\* the generator ends or raises after its last event, docker_stats.py:321
\* and 331-334; a silent stream leaves the loop waiting
StreamEnds ==
    /\ collector["pc"] = "iterating"
    /\ Len(collector["events"]) = Len(collector["stream"]["events"])
    /\ collector["stream"]["then"] \in {"closed", "raise"}
    /\ collector' =
          [collector EXCEPT
              !["pc"] = "returned",
              !["result"] = IF collector["stream"]["then"] = "closed"
                            THEN collector["events"] ELSE <<>>]
    /\ UNCHANGED <<is_connected, container_histories, last_refresh,
                   history_limit, now, run, appended, limits_used, stats_in,
                   stats_out, poll_in, poll_out, pc, sessions>>

CollectorNext ==
    \/ CallGetContainers
    \/ CallGetStats
    \/ CallGetAllStats
    \/ CallGetLogs
    \/ CallGetSystemStats
    \/ CallTestConnection
    \/ CallGetEvents
    \/ EventArrives
    \/ StreamEnds

SpecCollector == CollectorInit /\ [][CollectorNext]_vars

(***************************************************************************)
(* Properties of get_container_stats (SpecStats)                           *)
(***************************************************************************)

\* the call returned the record of a running container
ReturnedFull ==
    /\ pc = "done"
    /\ "running" \in DOMAIN stats_out
    /\ stats_out["running"]

\* the snapshot of the call carries the four CPU counters
HasCounters(stats) ==
    /\ "cpu_usage" \in DOMAIN stats["cpu_stats"]
    /\ "total_usage" \in DOMAIN stats["cpu_stats"]["cpu_usage"]
    /\ "cpu_usage" \in DOMAIN stats["precpu_stats"]
    /\ "total_usage" \in DOMAIN stats["precpu_stats"]["cpu_usage"]
    /\ "system_cpu_usage" \in DOMAIN stats["cpu_stats"]
    /\ "system_cpu_usage" \in DOMAIN stats["precpu_stats"]

\* current minus previous total_usage
TotalUsageDelta(stats) ==
    stats["cpu_stats"]["cpu_usage"]["total_usage"]
        - stats["precpu_stats"]["cpu_usage"]["total_usage"]

\* current minus previous system_cpu_usage
SystemUsageDelta(stats) ==
    stats["cpu_stats"]["system_cpu_usage"]
        - stats["precpu_stats"]["system_cpu_usage"]

\* r hundredths is n / d rounded to two decimals: no hundredth is nearer
IsRounded2(r, n, d) ==
    LET diff == r * d - 100 * n
    IN  2 * (IF diff < 0 THEN -diff ELSE diff) <= d

\* C4: for every snapshot of a running container, if the system delta is
\* <= 0 or the container's CPU delta is <= 0 (a counter that went back
\* included), cpu_percent is 0; and cpu_percent is never negative.
C4_CpuGuard ==
    ReturnedFull =>
        /\ stats_out["cpu_percent"] >= 0
        /\ (/\ HasCounters(stats_in["stats"])
            /\ \/ SystemUsageDelta(stats_in["stats"]) <= 0
               \/ TotalUsageDelta(stats_in["stats"]) <= 0)
           => stats_out["cpu_percent"] = 0

\* C4 witness: total_usage went back while the system counter advanced on a
\* machine with CPUs, and the record says 0
C4_Witness ==
    /\ ReturnedFull
    /\ HasCounters(stats_in["stats"])
    /\ TotalUsageDelta(stats_in["stats"]) < 0
    /\ SystemUsageDelta(stats_in["stats"]) > 0
    /\ OnlineCpus(stats_in["stats"]) > 0
    /\ stats_out["cpu_percent"] = 0

\* C5: when the CPU delta and the system delta are both > 0, cpu_percent is
\* (cpu_delta / system_delta) * online_cpus * 100 rounded to two decimals,
\* online_cpus being the count the code uses; 100 -> 300 over 1000 -> 3000
\* on two CPUs is 20.00.
C5_CpuFormula ==
    /\ (/\ ReturnedFull
        /\ HasCounters(stats_in["stats"])
        /\ SystemUsageDelta(stats_in["stats"]) > 0
        /\ TotalUsageDelta(stats_in["stats"]) > 0)
       => IsRounded2(stats_out["cpu_percent"],
                     TotalUsageDelta(stats_in["stats"])
                        * OnlineCpus(stats_in["stats"]) * 100,
                     SystemUsageDelta(stats_in["stats"]))
    /\ (ReturnedFull /\ stats_in = FetchStats(ScenarioA))
       => stats_out["cpu_percent"] = 2000

\* C5 witness: the scenario's snapshot has been normalised to 20.00
C5_Witness ==
    /\ ReturnedFull
    /\ stats_in = FetchStats(ScenarioA)
    /\ stats_out["cpu_percent"] = 2000

\* C5 witness of the rounding: 200 / 3000 * 100 = 6.666... is 6.67
C5_WitnessRounded ==
    /\ ReturnedFull
    /\ HasCounters(stats_in["stats"])
    /\ TotalUsageDelta(stats_in["stats"]) = 200
    /\ SystemUsageDelta(stats_in["stats"]) = 3000
    /\ OnlineCpus(stats_in["stats"]) = 1
    /\ stats_out["cpu_percent"] = 667

\* the CPU count the record was computed with is n
UsesCpuCount(n) ==
    IsRounded2(stats_out["cpu_percent"],
               TotalUsageDelta(stats_in["stats"]) * n * 100,
               SystemUsageDelta(stats_in["stats"]))

\* the snapshots whose record shows the CPU count
ShowsCpuCount ==
    /\ ReturnedFull
    /\ HasCounters(stats_in["stats"])
    /\ SystemUsageDelta(stats_in["stats"]) > 0
    /\ TotalUsageDelta(stats_in["stats"]) > 0

\* C6 as claimed: the CPU count is online_cpus, and 1 whenever that field is
\* absent, whatever else the snapshot carries.
C6_DefaultAlwaysOne ==
    ShowsCpuCount =>
        IF "online_cpus" \in DOMAIN stats_in["stats"]["cpu_stats"]
        THEN UsesCpuCount(stats_in["stats"]["cpu_stats"]["online_cpus"])
        ELSE UsesCpuCount(1)

\* C6 amended: the CPU count is online_cpus when present; otherwise the
\* length of cpu_usage.percpu_usage when that list is present (0 for an
\* empty list); otherwise 1.
C6_CpuCount ==
    ShowsCpuCount =>
        LET cpu_stats == stats_in["stats"]["cpu_stats"]
        IN  IF "online_cpus" \in DOMAIN cpu_stats
            THEN UsesCpuCount(cpu_stats["online_cpus"])
            ELSE IF "percpu_usage" \in DOMAIN cpu_stats["cpu_usage"]
            THEN UsesCpuCount(Len(cpu_stats["cpu_usage"]["percpu_usage"]))
            ELSE UsesCpuCount(1)

\* C6 witness: no online_cpus, two per-CPU entries, and the record is twice
\* what one CPU gives: 200 / 2000 * 2 * 100 = 20.00
C6_Witness ==
    /\ ShowsCpuCount
    /\ "online_cpus" \notin DOMAIN stats_in["stats"]["cpu_stats"]
    /\ "percpu_usage" \in DOMAIN stats_in["stats"]["cpu_stats"]["cpu_usage"]
    /\ Len(stats_in["stats"]["cpu_stats"]["cpu_usage"]["percpu_usage"]) = 2
    /\ TotalUsageDelta(stats_in["stats"]) = 200
    /\ SystemUsageDelta(stats_in["stats"]) = 2000
    /\ stats_out["cpu_percent"] = 2000

\* the call was given a snapshot with both cpu_stats and precpu_stats
FetchedSnapshot ==
    /\ pc = "done"
    /\ is_connected
    /\ stats_in["get"] = "ok"
    /\ stats_in["status"] = "running"
    /\ stats_in["call"] = "ok"
    /\ stats_in["stats"] \in Snapshots

\* C7: for every snapshot of a running container, mem_percent is
\* usage / limit * 100 rounded to two decimals when the limit is > 0 and 0
\* when the snapshot has no positive limit (limit 0 or no limit reported);
\* no error record is produced in either case.
C7_MemGuard ==
    FetchedSnapshot =>
        LET mem == Get(stats_in["stats"], "memory_stats", EmptyDict)
        IN  /\ ReturnedFull
            /\ "error" \notin DOMAIN stats_out
            /\ IF "limit" \in DOMAIN mem /\ mem["limit"] > 0
               THEN IsRounded2(stats_out["mem_percent"],
                               Get(mem, "usage", 0) * 100, mem["limit"])
               ELSE stats_out["mem_percent"] = 0

(***************************************************************************)
(* Properties of the history (Spec)                                        *)
(***************************************************************************)

\* the last k elements of s, oldest first
LastK(s, k) == [i \in 1..k |-> s[Len(s) - k + i]]

Min(a, b) == IF a < b THEN a ELSE b

\* the run that just ended was a refresh cycle that appended a record for id
AppendedNow(id) ==
    /\ run["outcome"] = "refreshed"
    /\ id \in DOMAIN appended
    /\ appended[id][Len(appended[id])]["timestamp"] = now

\* C1: when every refresh cycle so far ran with the same capacity c, a
\* container's history is exactly the last min(n, c) of the n records
\* appended for it, oldest first; capacity 3 and R1..R4 leave [R2, R3, R4].
C1_BoundedFifo ==
    \A c \in HistoryLimits :
        limits_used = {c} =>
            /\ DOMAIN container_histories = DOMAIN appended
            /\ \A id \in DOMAIN appended :
                container_histories[id]
                    = LastK(appended[id], Min(Len(appended[id]), c))

\* C1 witness: c + 1 records were appended for one container under the one
\* capacity c, and its history is the last c of them
C1_Witness ==
    \E c \in HistoryLimits, id \in DOMAIN appended :
        /\ limits_used = {c}
        /\ Len(appended[id]) = c + 1
        /\ Len(container_histories[id]) = c
        /\ container_histories[id] = SubSeq(appended[id], 2, c + 1)

\* C2 as claimed: at the end of every run, every history is no longer than
\* the capacity now configured.
C2_WithinCurrentLimit ==
    \A id \in DOMAIN container_histories :
        Len(container_histories[id]) <= history_limit

\* C2 amended: at the end of every run, the history of every container that
\* received a record in that run is no longer than the capacity now
\* configured, and no history is longer than the largest capacity a refresh
\* cycle has used.
C2_WithinLimitAtAppend ==
    \A id \in DOMAIN container_histories :
        /\ AppendedNow(id) => Len(container_histories[id]) <= history_limit
        /\ \E c \in limits_used : Len(container_histories[id]) <= c

\* C2 witness: the run appended to a history that was full, and it is still
\* exactly as long as the capacity
C2_Witness ==
    \E id \in DOMAIN container_histories :
        /\ AppendedNow(id)
        /\ Len(appended[id]) > history_limit
        /\ Len(container_histories[id]) = history_limit

\* C3: a refresh cycle that appends a record for a container under capacity
\* c2 leaves its history with min(old length + 1, c2) entries: the most
\* recent ones of the old history in order, then the new record; so it is
\* for the first append after the capacity went down to c2.
C3_NextAppend ==
    [][\A id \in DOMAIN appended' :
          Len(appended'[id]) = Len(Get(appended, id, <<>>)) + 1 =>
              LET old == Get(container_histories, id, <<>>)
                  rec == appended'[id][Len(appended'[id])]
              IN  container_histories'[id]
                      = LastK(Append(old, rec),
                              Min(Len(old) + 1, history_limit'))]_vars

\* C3 witness: the capacity went down, the run appended to a history that
\* was longer than the new capacity allows, and the history is now the last
\* c2 records appended
C3_Witness ==
    \E id \in DOMAIN container_histories :
        /\ AppendedNow(id)
        /\ \E c1 \in limits_used : c1 > history_limit
        /\ Len(appended[id]) > history_limit + 1
        /\ container_histories[id] = LastK(appended[id], history_limit)

(***************************************************************************)
(* Properties of one poll (SpecPoll)                                       *)
(***************************************************************************)

\* the listed containers the poll fetches
ListedRunning ==
    SelectSeq(get_containers(is_connected, poll_in["listing"]),
              LAMBDA c : c["status"] = "running")

\* the fetch of the container raises
FetchFails(id) ==
    \/ poll_in["fetches"][id]["get"] = "raise"
    \/ /\ poll_in["fetches"][id]["status"] = "running"
       /\ poll_in["fetches"][id]["call"] = "raise"

\* C8: a container observed as not running (one that stopped after it was
\* listed as running included) yields a record with id, name, status,
\* timestamp and running = false and no metric, and that record is not among
\* the rows the fleet summary is computed over.
C8_NotRunningExcluded ==
    pc = "done" =>
        \A i \in DOMAIN ListedRunning :
            LET id == ListedRunning[i]["id"]
                fetch == poll_in["fetches"][id]
                r == get_container_stats(is_connected, id, fetch, 1)
            IN  (fetch["get"] = "ok" /\ fetch["status"] # "running") =>
                    /\ DOMAIN r = {"id", "name", "status", "running",
                                   "timestamp"}
                    /\ ~r["running"]
                    /\ r["status"] = fetch["status"]
                    /\ \A j \in DOMAIN poll_out["summary_rows"] :
                        poll_out["summary_rows"][j]["id"] # id

\* C9: every listed running container has its own row in the result of the
\* poll, in the order listed; the row of a container whose fetch failed is
\* an error record with running = false, and only those rows are.
C9_FailureIsolated ==
    pc = "done" =>
        LET df == poll_out["all_stats_df"]
        IN  /\ Len(df) = Len(ListedRunning)
            /\ \A i \in DOMAIN ListedRunning :
                LET id == ListedRunning[i]["id"]
                IN  /\ df[i]["id"] = id
                    /\ FetchFails(id) <=>
                          /\ df[i]["status"] = "error"
                          /\ ~df[i]["running"]
                          /\ "error" \in DOMAIN df[i]
                          /\ df[i]["error"] # NaN("error")
                    /\ poll_in["fetches"][id] = FetchStats(ScenarioA)
                          => df[i]["running"] /\ df[i]["cpu_percent"] = 2000

\* C9 witness: c1 was removed after it was listed, c2 was not, and the poll
\* returned c1's error record and c2's metrics
C9_Witness ==
    /\ pc = "done"
    /\ Len(ListedRunning) = 2
    /\ poll_in["fetches"]["c1"] = FetchGone
    /\ poll_in["fetches"]["c2"] = FetchStats(ScenarioA)
    /\ Len(poll_out["all_stats_df"]) = 2
    /\ poll_out["all_stats_df"][1]["status"] = "error"
    /\ poll_out["all_stats_df"][2]["running"]
    /\ poll_out["all_stats_df"][2]["cpu_percent"] = 2000

\* what the script computes and shows when the runtime answers and has no
\* container
NoContainersView ==
    View(is_connected,
         [listing |-> [ok |-> TRUE, rows |-> <<>>],
          fetches |-> poll_in["fetches"],
          listing2 |-> [ok |-> TRUE, rows |-> <<>>]], 1)

\* C10: when the runtime cannot be reached during the poll of a run whose
\* connection check passed, what the caller gets differs from what it gets
\* from a poll that found no containers.
C10_OutageSignalled ==
    (/\ pc = "done"
     /\ ~poll_in["listing"]["ok"]
     /\ ~poll_in["listing2"]["ok"])
    => poll_out # NoContainersView

(***************************************************************************)
(* Optional parts of a snapshot                                            *)
(***************************************************************************)

\* key k is missing from d, or bound to the None of its kind
AbsentOrNone(d, k, none) == k \notin DOMAIN d \/ d[k] = none

\* the call fetched ScenarioA with some choice of the optional parts
FetchedOptional ==
    /\ pc = "done"
    /\ is_connected
    /\ stats_in["get"] = "ok"
    /\ stats_in["status"] = "running"
    /\ stats_in["call"] = "ok"
    /\ stats_in["stats"] \in OptionalSnapshots

\* the fields of record r that belong to an optional part which snapshot s
\* lacks, or holds as None, are 0
MissingPartsAreZero(s, r) ==
    /\ AbsentOrNone(s["cpu_stats"], "throttling_data", None)
        => r["cpu_throttled_periods"] = 0 /\ r["cpu_throttled_time"] = 0
    /\ (\/ AbsentOrNone(s["memory_stats"], "stats", None)
        \/ AbsentOrNone(s["memory_stats"]["stats"], "cache", NoneInt))
        => r["mem_cache"] = 0
    /\ (\/ AbsentOrNone(s["memory_stats"], "stats", None)
        \/ AbsentOrNone(s["memory_stats"]["stats"], "swap", NoneInt))
        => r["mem_swap"] = 0
    /\ (\/ AbsentOrNone(s, "networks", None)
        \/ \A i \in DOMAIN s["networks"] :
              s["networks"][i] \in {None, EmptyDict})
        => \A k \in {"network_rx", "network_tx", "network_rx_dropped",
                     "network_tx_dropped", "network_rx_errors",
                     "network_tx_errors"} : r[k] = 0
    /\ (\/ AbsentOrNone(s, "blkio_stats", None)
        \/ AbsentOrNone(s["blkio_stats"], "io_service_bytes_recursive",
                        NoneList))
        => r["block_read"] = 0 /\ r["block_write"] = 0
    /\ (\/ AbsentOrNone(s, "pids_stats", None)
        \/ "current" \notin DOMAIN s["pids_stats"])
        => r["pids"] = 0

\* C14: for a running container whose fetch succeeded, whatever optional
\* parts of the snapshot (throttling data, cache, swap, network interface
\* data, block-I/O entries, pids) are absent or None, the result is a
\* running record, never an error record, and the fields of the missing
\* parts are 0.
C14_MissingOptionalNeverError ==
    FetchedOptional =>
        /\ "error" \notin DOMAIN stats_out
        /\ stats_out["running"]
        /\ stats_out["status"] = "running"
        /\ MissingPartsAreZero(stats_in["stats"], stats_out)

(***************************************************************************)
(* The fleet summary                                                       *)
(***************************************************************************)

\* the sum of f[x] over the x of S
RECURSIVE SumOver(_, _)
SumOver(f, S) ==
    IF S = {} THEN 0
    ELSE LET x == CHOOSE y \in S : TRUE
         IN  f[x] + SumOver(f, S \ {x})

\* the rows of a frame that are records of running containers: the rows
\* that have metrics
MetricRows(rows) == {i \in DOMAIN rows : rows[i]["running"]}

\* the sum of field k over the rows that have metrics
MetricTotal(rows, k) ==
    SumOver([i \in MetricRows(rows) |-> rows[i][k]], MetricRows(rows))

\* the script computed a summary from the poll
SummaryShown ==
    /\ pc = "done"
    /\ poll_out["summary"]["outcome"] = "shown"

C13_FleetMemory ==
    SummaryShown =>
        LET rows == poll_out["summary_rows"]
            limit == MetricTotal(rows, "mem_limit")
            usage == MetricTotal(rows, "mem_usage")
            total_mem_limit == poll_out["summary"]["total_mem_limit"]
            total_mem_percent == poll_out["summary"]["total_mem_percent"]
        IN  /\ total_mem_limit["den"] = Cardinality(MetricRows(rows))
            /\ total_mem_limit["num"] = limit * total_mem_limit["den"]
            /\ poll_out["summary"]["total_mem_usage"] = usage
            /\ IF limit > 0
               THEN total_mem_percent["num"] * limit
                        = usage * 100 * total_mem_percent["den"]
               ELSE total_mem_percent["num"] = 0

(***************************************************************************)
(* The connection check of a script run                                    *)
(***************************************************************************)

\* C11: every script run calls test_docker_connection before any other
\* method of DockerStats; when it returns False (the collector is not
\* connected, or the ping fails) the run shows the connection error and
\* stops: it calls neither get_containers nor get_all_container_stats and
\* leaves the histories as they were.
C11_PingGatesPolling ==
    [][/\ run'["calls"] # <<>>
       /\ Head(run'["calls"]) = "test_docker_connection"
       /\ ~(is_connected /\ run'["ping"]) =>
            /\ run'["outcome"] = "stopped"
            /\ run'["connect_error"]
            /\ run'["calls"] = <<"test_docker_connection">>
            /\ container_histories' = container_histories
            /\ appended' = appended]_vars

\* a connected collector whose ping fails after histories were collected
C11_Witness ==
    /\ is_connected
    /\ run["outcome"] = "stopped"
    /\ ~run["ping"]
    /\ container_histories # EmptyDict

(***************************************************************************)
(* The first sample of a container                                         *)
(***************************************************************************)

\* the snapshot has no previous total_usage or no previous system_cpu_usage
NoPriorReading(stats) ==
    \/ "cpu_usage" \notin DOMAIN stats["precpu_stats"]
    \/ "total_usage" \notin DOMAIN stats["precpu_stats"]["cpu_usage"]
    \/ "system_cpu_usage" \notin DOMAIN stats["precpu_stats"]

\* the poll fetched a usable snapshot of container id that has no prior
\* CPU reading
FirstSampled(id) ==
    LET fetch == poll_in["fetches"][id]
    IN  /\ \E i \in DOMAIN ListedRunning : ListedRunning[i]["id"] = id
        /\ fetch["get"] = "ok"
        /\ fetch["status"] = "running"
        /\ fetch["call"] = "ok"
        /\ {"cpu_stats", "precpu_stats"} \subseteq DOMAIN fetch["stats"]
        /\ NoPriorReading(fetch["stats"])

HistoryOfReturned ==
    UpdateHistories(EmptyDict, DataFrame(<<stats_out>>),
                    HistoryLimitDefault)["c1"]

\* the summary computed over the record the call returned
SummaryOfReturned == display_summary_metrics(DataFrame(<<stats_out>>))

\* C16: every snapshot of the model has non-negative counters, limit and
\* CPU count; the record get_container_stats makes of it has
\* cpu_percent >= 0 and mem_percent >= 0, and so have the record a refresh
\* cycle stores in the history and the totals of the fleet summary.
C16_NonNegative ==
    ReturnedFull =>
        /\ stats_out["cpu_percent"] >= 0
        /\ stats_out["mem_percent"] >= 0
        /\ \A i \in DOMAIN HistoryOfReturned :
              /\ HistoryOfReturned[i]["cpu_percent"] >= 0
              /\ HistoryOfReturned[i]["mem_percent"] >= 0
        /\ SummaryOfReturned["outcome"] = "shown"
        /\ SummaryOfReturned["total_cpu"] >= 0
        /\ SummaryOfReturned["total_mem_usage"] >= 0
        /\ SummaryOfReturned["total_mem_percent"]["num"] >= 0
        /\ SummaryOfReturned["total_mem_percent"]["den"] > 0

\* both counters ran backwards and memory is in use: the percentages are
\* 0 and positive
C16_Witness ==
    /\ ReturnedFull
    /\ HasCounters(stats_in["stats"])
    /\ TotalUsageDelta(stats_in["stats"]) < 0
    /\ SystemUsageDelta(stats_in["stats"]) < 0
    /\ stats_out["cpu_percent"] = 0
    /\ stats_out["mem_percent"] > 0
    /\ Len(HistoryOfReturned) = 1

(***************************************************************************)
(* The keys of the history store and the refresh condition (Spec)          *)
(***************************************************************************)

\* C18: container_histories has a key for a container exactly when some
\* refresh cycle so far produced a record for it; no run removes a key, and
\* the history under a key is never empty.
C18_KeysNeverDestroyed ==
    [][/\ DOMAIN container_histories' = DOMAIN appended'
       /\ DOMAIN container_histories \subseteq DOMAIN container_histories'
       /\ \A id \in DOMAIN container_histories' :
            container_histories'[id] # <<>>]_vars

\* the last refresh cycle appended for c2 only, and the history of c1,
\* appended to by an earlier cycle, is still there
C18_Witness ==
    /\ AppendedNow("c2")
    /\ "c1" \in DOMAIN container_histories
    /\ ~AppendedNow("c1")
    /\ container_histories["c1"] # <<>>

\* C19: a run that passes the connection check runs the refresh cycle
\* (appends the polled records and sets last_refresh to the current time)
\* if and only if the time since last_refresh exceeds refresh_interval or
\* the button was pressed in that run; every other run leaves the
\* histories and last_refresh (once initialised) as they were; a refresh
\* cycle appends at most one record per container.
C19_RefreshTrigger ==
    [][LET due == \/ (now' - LastRefresh(now')) > run'["refresh_interval"]
                  \/ run'["refresh"]
       IN  IF run'["outcome"] = "refreshed"
           THEN /\ due
                /\ last_refresh' = now'
                /\ \A id \in DOMAIN appended' :
                     \/ /\ id \in DOMAIN appended
                        /\ appended'[id] = appended[id]
                        /\ container_histories'[id] = container_histories[id]
                     \/ /\ Len(appended'[id])
                              = Len(Get(appended, id, <<>>)) + 1
                        /\ appended'[id][Len(appended'[id])]["timestamp"]
                              = now'
           ELSE /\ run'["outcome"] = "cached" => ~due
                /\ container_histories' = container_histories
                /\ appended' = appended
                /\ last_refresh' = LastRefresh(now')]_vars

\* the refresh cycle ran because the interval had passed, without the
\* button, and appended a record
C19_Witness ==
    /\ run["outcome"] = "refreshed"
    /\ ~run["refresh"]
    /\ last_refresh = now
    /\ \E id \in ContainerIds : AppendedNow(id)

\* C20: the first run of a session sets last_refresh to the current time,
\* cannot have the button pressed and appends nothing; the first history
\* entry is made by a later run in which the interval has passed or the
\* button was pressed.
C20_FirstRunCollectsNothing ==
    [][/\ run["outcome"] = "none" =>
            /\ run'["outcome"] # "refreshed"
            /\ ~run'["refresh"]
            /\ last_refresh' = now'
            /\ container_histories' = EmptyDict
            /\ appended' = EmptyDict
       /\ (container_histories = EmptyDict
             /\ container_histories' # EmptyDict) =>
            /\ run["outcome"] # "none"
            /\ run'["outcome"] = "refreshed"
            /\ \/ (now' - last_refresh) > run'["refresh_interval"]
               \/ run'["refresh"]]_vars

\* the first run passed the connection check and left the store empty
C20_Witness ==
    /\ is_connected
    /\ run["outcome"] = "cached"
    /\ last_refresh = now
    /\ container_histories = EmptyDict

(***************************************************************************)
(* Overlapping polls (SpecSessions)                                        *)
(***************************************************************************)

\* the sessions whose refresh cycle is in progress on the DockerStats
Polling == {s \in SessionIds : sessions[s]["pc"] = "polling"}

\* C17: at most one poll cycle is in progress on the one DockerStats at any
\* time, whatever the interleaving of the runs of the sessions that share
\* it.
C17_NoOverlappingPolls == Cardinality(Polling) <= 1

(***************************************************************************)
(* A collector that never connected (SpecCollector)                        *)
(***************************************************************************)

\* what a method returns when there is nothing to return
EmptyValue(op) == IF op = "test_docker_connection" THEN FALSE ELSE <<>>

\* C21: no method changes is_connected, so a collector whose connection
\* failed in the constructor stays disconnected; and every call of a public
\* method of a disconnected collector returns at once, with its empty value
\* (False for test_docker_connection) and without a call to the Docker
\* client.
C21_DisconnectedInert ==
    [][/\ is_connected' = is_connected
       /\ ~is_connected =>
              /\ collector'["pc"] = "returned"
              /\ collector'["runtime"] = <<>>
              /\ collector'["result"] = EmptyValue(collector'["op"])]_vars

\* get_container_events was called on a disconnected collector, for up to
\* two events of a stream that holds some, and returned the empty list.
C21_Witness ==
    /\ ~is_connected
    /\ collector["op"] = "get_container_events"
    /\ collector["pc"] = "returned"
    /\ collector["limit"] = 2
    /\ collector["stream"]["events"] # <<>>
    /\ collector["runtime"] = <<>>
    /\ collector["result"] = <<>>

(***************************************************************************)
(* Event retrieval (SpecCollector)                                         *)
(***************************************************************************)

\* the loop of get_container_events waits for an event that never comes
Waiting ==
    /\ collector["op"] = "get_container_events"
    /\ collector["pc"] = "iterating"
    /\ Len(collector["events"]) = Len(collector["stream"]["events"])
    /\ collector["stream"]["then"] = "silent"

\* the entries returned are those of the first events of the stream, in the
\* order of the stream
InStreamOrder ==
    /\ Len(collector["result"]) <= Len(collector["stream"]["events"])
    /\ \A i \in 1..Len(collector["result"]) :
          collector["result"][i] = EventEntry(collector["stream"]["events"][i])

\* C22: for every limit >= 0 and every stream of events, a call of
\* get_container_events never waits forever for an event, and it returns at
\* most limit entries, which are those of the first events of the stream in
\* stream order.
C22_EventsBounded ==
    /\ ~Waiting
    /\ (collector["op"] = "get_container_events"
        /\ collector["pc"] = "returned") =>
           /\ Len(collector["result"]) <= collector["limit"]
           /\ InStreamOrder

====
